---- MODULE Spec2Model ----
(***************************************************************************)
(* Model of the Stripe relay of src/app.py: the parameter parser           *)
(* (parse_cc_parameter), the text sanitizer (sanitize_response), the       *)
(* response classifier (parse_stripe_response) and the request handler     *)
(* (stripe_auth).  Texts are sequences of one-character strings.           *)
(***************************************************************************)
EXTENDS Integers, Sequences, FiniteSets, TLC

(* ------------------------------ bounds --------------------------------- *)
\* largest number of '|'-delimited segments of a request parameter
MaxSegs == 5
\* largest number of fragments of a classified text
MaxTextFrags == 2
\* largest number of fragments of a sanitized text
MaxSanFrags == 3
(* --------------------------- character classes ------------------------- *)
LowerCase == <<"a", "b", "c", "d", "e", "f", "g", "h", "i", "j", "k", "l", "m", "n", "o", "p", "q", "r", "s", "t", "u", "v", "w", "x", "y", "z">>
UpperCase == <<"A", "B", "C", "D", "E", "F", "G", "H", "I", "J", "K", "L", "M", "N", "O", "P", "Q", "R", "S", "T", "U", "V", "W", "X", "Y", "Z">>
Digits == {"0", "1", "2", "3", "4", "5", "6", "7", "8", "9"}
Range(s) == {s[i] : i \in DOMAIN s}
Letters == Range(LowerCase) \cup Range(UpperCase)

\* \w of the re module (ASCII part): letters, digits and the underscore
WordChars == Letters \cup Digits \cup {"_"}

\* the characters one repetition of the URL group accepts:
\* [a-zA-Z] | [0-9] | [$-_@.&+] (the range $ .. _ of ASCII) | [!*\(\),]
URLChars ==
    Letters \cup Digits \cup
    {"$", "%", "&", "'", "(", ")", "*", "+", ",", "-", ".", "/", ":", ";",
     "<", "=", ">", "?", "@", "[", "\\", "]", "^", "_", "!"}

\* the characters str.strip() removes
Whitespace == {" ", "\t", "\n", "\r"}

(* ------------------------------ str helpers ---------------------------- *)
\* str.lower() on one character
LowerChar(c) ==
    IF \E i \in DOMAIN UpperCase : UpperCase[i] = c
    THEN LowerCase[CHOOSE i \in DOMAIN UpperCase : UpperCase[i] = c]
    ELSE c

\* str.lower()
lower(text) == [i \in DOMAIN text |-> LowerChar(text[i])]

\* text[i:].startswith(p)
StartsWithAt(text, i, p) ==
    /\ i + Len(p) - 1 <= Len(text)
    /\ SubSeq(text, i, i + Len(p) - 1) = p

\* the `in` operator on strings: p is a substring of text
Contains(text, p) ==
    \E i \in 1..(Len(text) - Len(p) + 1) : StartsWithAt(text, i, p)

\* last index of the maximal run of characters of S that starts at i
\* (i - 1 when text[i] is not in S): a greedy one-character repetition
RunEnd(text, i, S) ==
    IF i > Len(text) THEN i - 1
    ELSE CHOOSE j \in (i - 1)..Len(text) :
             /\ \A k \in i..j : text[k] \in S
             /\ j = Len(text) \/ text[j + 1] \notin S

\* str.join(sep, parts)
RECURSIVE Join(_, _)
Join(parts, sep) ==
    IF Len(parts) = 0 THEN <<>>
    ELSE IF Len(parts) = 1 THEN parts[1]
    ELSE parts[1] \o sep \o Join(Tail(parts), sep)

\* str.split(sep) for a one-character separator: always at least one part
\* (the parts of text[i:], one step per separator)
RECURSIVE SplitFrom(_, _, _)
SplitFrom(text, sep, i) ==
    LET seps == {j \in i..Len(text) : text[j] = sep}
        first == CHOOSE j \in seps : \A l \in seps : j <= l
    IN IF seps = {} THEN <<SubSeq(text, i, Len(text))>>
       ELSE <<SubSeq(text, i, first - 1)>> \o SplitFrom(text, sep, first + 1)

split(text, sep) == SplitFrom(text, sep, 1)

\* str.lstrip(): the text from its first non-whitespace character on
LStrip(text) ==
    LET keep == {i \in DOMAIN text : text[i] \notin Whitespace}
    IN IF keep = {} THEN <<>>
       ELSE SubSeq(text, CHOOSE i \in keep : \A l \in keep : i <= l, Len(text))

\* str.rstrip(): the text up to its last non-whitespace character
RStrip(text) ==
    LET keep == {i \in DOMAIN text : text[i] \notin Whitespace}
    IN IF keep = {} THEN <<>>
       ELSE SubSeq(text, 1, CHOOSE i \in keep : \A l \in keep : l <= i)

\* str.strip()
strip(text) == RStrip(LStrip(text))

(* --------------------------- sanitize_response ------------------------- *)
\* end of the match of @\w+ at i, 0 when there is none
MentionEnd(text, i) ==
    IF text[i] = "@" /\ RunEnd(text, i + 1, WordChars) >= i + 1
    THEN RunEnd(text, i + 1, WordChars) ELSE 0

\* end of the match of http[s]?://(?:...)+ at i, 0 when there is none
URLEnd(text, i) ==
    LET n == IF StartsWithAt(text, i, <<"h", "t", "t", "p", "s", ":", "/", "/">>) THEN 8
             ELSE IF StartsWithAt(text, i, <<"h", "t", "t", "p", ":", "/", "/">>) THEN 7 ELSE 0
    IN IF n > 0 /\ RunEnd(text, i + n, URLChars) >= i + n
       THEN RunEnd(text, i + n, URLChars) ELSE 0

\* end of the match of www\.\w+\.\w+ at i, 0 when there is none
WWWEnd(text, i) ==
    LET j == RunEnd(text, i + 4, WordChars)
        k == RunEnd(text, j + 2, WordChars)
    IN IF /\ StartsWithAt(text, i, <<"w", "w", "w", ".">>)
          /\ j >= i + 4
          /\ j + 1 <= Len(text) /\ text[j + 1] = "."
          /\ k >= j + 2
       THEN k ELSE 0

\* re.sub(r'@\w+', '', text) on text[i:]: the scan copies the text up to
\* the leftmost match, drops the match and goes on behind it
RECURSIVE SubMention(_, _)
SubMention(text, i) ==
    LET starts == {j \in i..Len(text) : MentionEnd(text, j) > 0}
        first == CHOOSE j \in starts : \A l \in starts : j <= l
    IN IF starts = {} THEN SubSeq(text, i, Len(text))
       ELSE SubSeq(text, i, first - 1) \o SubMention(text, MentionEnd(text, first) + 1)

\* re.sub(r'http[s]?://...', '', text)
RECURSIVE SubURL(_, _)
SubURL(text, i) ==
    LET starts == {j \in i..Len(text) : URLEnd(text, j) > 0}
        first == CHOOSE j \in starts : \A l \in starts : j <= l
    IN IF starts = {} THEN SubSeq(text, i, Len(text))
       ELSE SubSeq(text, i, first - 1) \o SubURL(text, URLEnd(text, first) + 1)

\* re.sub(r'www\.\w+\.\w+', '', text)
RECURSIVE SubWWW(_, _)
SubWWW(text, i) ==
    LET starts == {j \in i..Len(text) : WWWEnd(text, j) > 0}
        first == CHOOSE j \in starts : \A l \in starts : j <= l
    IN IF starts = {} THEN SubSeq(text, i, Len(text))
       ELSE SubSeq(text, i, first - 1) \o SubWWW(text, WWWEnd(text, first) + 1)

sanitize_response(text) ==
    IF Len(text) = 0 THEN <<>>
    ELSE strip(SubWWW(SubURL(SubMention(text, 1), 1), 1))

(* ------------------------- parse_stripe_response ----------------------- *)
\* the dict literal, in insertion order (the order .items() iterates in)
response_mapping == <<
    [pattern |-> <<"Y", "o", "u", "r", " ", "c", "a", "r", "d", " ", "w", "a", "s", " ", "d", "e", "c", "l", "i", "n", "e", "d">>, message |-> <<"C", "a", "r", "d", " ", "D", "e", "c", "l", "i", "n", "e", "d">>, status |-> "declined", code |-> "CARD_DECLINED"],
    [pattern |-> <<"c", "a", "r", "d", " ", "w", "a", "s", " ", "d", "e", "c", "l", "i", "n", "e", "d">>, message |-> <<"C", "a", "r", "d", " ", "D", "e", "c", "l", "i", "n", "e", "d">>, status |-> "declined", code |-> "CARD_DECLINED"],
    [pattern |-> <<"a", "p", "p", "r", "o", "v", "e", "d">>, message |-> <<"A", "p", "p", "r", "o", "v", "e", "d">>, status |-> "approved", code |-> "APPROVED"],
    [pattern |-> <<"s", "u", "c", "c", "e", "s", "s">>, message |-> <<"S", "u", "c", "c", "e", "s", "s">>, status |-> "approved", code |-> "SUCCESS"],
    [pattern |-> <<"i", "n", "s", "u", "f", "f", "i", "c", "i", "e", "n", "t", " ", "f", "u", "n", "d", "s">>, message |-> <<"I", "n", "s", "u", "f", "f", "i", "c", "i", "e", "n", "t", " ", "F", "u", "n", "d", "s">>, status |-> "declined", code |-> "INSUFFICIENT_FUNDS"],
    [pattern |-> <<"i", "n", "v", "a", "l", "i", "d", " ", "c", "a", "r", "d">>, message |-> <<"I", "n", "v", "a", "l", "i", "d", " ", "C", "a", "r", "d">>, status |-> "declined", code |-> "INVALID_CARD"],
    [pattern |-> <<"i", "n", "c", "o", "r", "r", "e", "c", "t", " ", "c", "v", "c">>, message |-> <<"I", "n", "c", "o", "r", "r", "e", "c", "t", " ", "C", "V", "C">>, status |-> "declined", code |-> "INCORRECT_CVC"],
    [pattern |-> <<"e", "x", "p", "i", "r", "e", "d", " ", "c", "a", "r", "d">>, message |-> <<"E", "x", "p", "i", "r", "e", "d", " ", "C", "a", "r", "d">>, status |-> "declined", code |-> "EXPIRED_CARD"],
    [pattern |-> <<"t", "r", "a", "n", "s", "a", "c", "t", "i", "o", "n", " ", "n", "o", "t", " ", "a", "l", "l", "o", "w", "e", "d">>, message |-> <<"T", "r", "a", "n", "s", "a", "c", "t", "i", "o", "n", " ", "N", "o", "t", " ", "A", "l", "l", "o", "w", "e", "d">>, status |-> "declined", code |-> "TRANSACTION_NOT_ALLOWED"],
    [pattern |-> <<"d", "o", " ", "n", "o", "t", " ", "h", "o", "n", "o", "r">>, message |-> <<"D", "o", " ", "N", "o", "t", " ", "H", "o", "n", "o", "r">>, status |-> "declined", code |-> "DO_NOT_HONOR"],
    [pattern |-> <<"s", "t", "o", "l", "e", "n", " ", "c", "a", "r", "d">>, message |-> <<"S", "t", "o", "l", "e", "n", " ", "C", "a", "r", "d">>, status |-> "declined", code |-> "STOLEN_CARD"],
    [pattern |-> <<"l", "o", "s", "t", " ", "c", "a", "r", "d">>, message |-> <<"L", "o", "s", "t", " ", "C", "a", "r", "d">>, status |-> "declined", code |-> "LOST_CARD"],
    [pattern |-> <<"p", "i", "c", "k", "u", "p", " ", "c", "a", "r", "d">>, message |-> <<"P", "i", "c", "k", "u", "p", " ", "C", "a", "r", "d">>, status |-> "declined", code |-> "PICKUP_CARD"] >>

Outcome(m, s, c) == [message |-> m, status |-> s, code |-> c]

\* variant of ScanRules: the loop does not return at the first match, so the
\* last matching rule wins
ScanRules_LastMatch(rules, text, text_lower, k) ==
    LET hits == {j \in k..Len(rules) : Contains(text_lower, rules[j].pattern)}
        last == CHOOSE j \in hits : \A l \in hits : l <= j
    IN IF hits = {} THEN Outcome(sanitize_response(text), "unknown", "UNKNOWN_RESPONSE")
       ELSE Outcome(rules[last].message, rules[last].status, rules[last].code)

\* the for loop over response_mapping.items(), from rule k on
RECURSIVE ScanRules(_, _, _, _)
ScanRules(rules, text, text_lower, k) ==
    IF k > Len(rules) THEN Outcome(sanitize_response(text), "unknown", "UNKNOWN_RESPONSE")
    ELSE IF Contains(text_lower, rules[k].pattern)
         THEN Outcome(rules[k].message, rules[k].status, rules[k].code)
         ELSE ScanRules(rules, text, text_lower, k + 1)

\* variant of parse_stripe_response: the patterns are looked up in the text
\* as received, not in text.lower()
parse_stripe_response_CaseSensitive(text) ==
    IF Len(text) = 0 THEN Outcome(<<"N", "o", " ", "r", "e", "s", "p", "o", "n", "s", "e">>, "declined", "NO_RESPONSE")
    ELSE ScanRules(response_mapping, text, text, 1)

parse_stripe_response(text) ==
    IF Len(text) = 0 THEN Outcome(<<"N", "o", " ", "r", "e", "s", "p", "o", "n", "s", "e">>, "declined", "NO_RESPONSE")
    ELSE ScanRules(response_mapping, text, lower(text), 1)

(* --------------------------- parse_cc_parameter ------------------------ *)
\* the value None
None == <<"None">>

\* variant of parse_cc_parameter: at least 4 parts are accepted
parse_cc_parameter_AtLeast4(cc_param) ==
    LET parts == split(cc_param, "|")
    IN IF Len(parts) >= 4
       THEN [cc |-> parts[1], mm |-> parts[2],
             yyyy |-> IF Len(parts[3]) = 2 THEN <<"2", "0">> \o parts[3] ELSE parts[3],
             cvv |-> parts[4]]
       ELSE [cc |-> None, mm |-> None, yyyy |-> None, cvv |-> None]

parse_cc_parameter(cc_param) ==
    LET parts == split(cc_param, "|")
    IN IF Len(parts) = 4
       THEN [cc |-> parts[1], mm |-> parts[2],
             yyyy |-> IF Len(parts[3]) = 2 THEN <<"2", "0">> \o parts[3] ELSE parts[3],
             cvv |-> parts[4]]
       ELSE [cc |-> None, mm |-> None, yyyy |-> None, cvv |-> None]

\* variant of Truthy: only None is rejected (an `is not None` test)
Truthy_NotNone(v) == v # None

\* truth value of a parsed field: None and '' are falsy
Truthy(v) == v # None /\ Len(v) > 0

(* ------------------------- requests.exceptions ------------------------- *)
\* the exceptions the upstream call can raise, and the classes each is an
\* instance of (requests.exceptions; RuntimeError stands for any exception
\* outside that hierarchy)
Raised == {"ReadTimeout", "ConnectTimeout", "ConnectionError", "TooManyRedirects", "RuntimeError"}

Bases(exc) ==
    CASE exc = "ReadTimeout" -> {"ReadTimeout", "Timeout", "RequestException", "Exception"}
      [] exc = "ConnectTimeout" -> {"ConnectTimeout", "ConnectionError", "Timeout", "RequestException", "Exception"}
      [] exc = "ConnectionError" -> {"ConnectionError", "RequestException", "Exception"}
      [] exc = "TooManyRedirects" -> {"TooManyRedirects", "RequestException", "Exception"}
      [] OTHER -> {"Exception"}

\* the except clauses of stripe_auth, in textual order: the class caught
\* and the response returned
ExceptClauses == <<
    [class |-> "Timeout", http |-> 504,
     body |-> [code |-> "TIMEOUT_ERROR", message |-> <<"Request to Stripe API timed out">>,
               status |-> "error", gate |-> "Stripe_Auth", processor |-> "OnyxEnvBot"]],
    [class |-> "RequestException", http |-> 503,
     body |-> [code |-> "NETWORK_ERROR", message |-> <<"Network error: ", "str(e)">>,
               status |-> "error", gate |-> "Stripe_Auth", processor |-> "OnyxEnvBot"]],
    [class |-> "Exception", http |-> 500,
     body |-> [code |-> "INTERNAL_ERROR", message |-> <<"Internal server error: ", "str(e)">>,
               status |-> "error", gate |-> "Stripe_Auth", processor |-> "OnyxEnvBot"]] >>

\* variant of ExceptResponse: the RequestException clause is tried before
\* the Timeout clause
ExceptResponse_GenericFirst(exc) ==
    LET order == <<2, 1, 3>>
        k == CHOOSE i \in DOMAIN order :
                 /\ ExceptClauses[order[i]].class \in Bases(exc)
                 /\ \A j \in 1..(i - 1) : ExceptClauses[order[j]].class \notin Bases(exc)
    IN [http |-> ExceptClauses[order[k]].http, body |-> ExceptClauses[order[k]].body]

\* try/except dispatch: the first clause whose class the exception is an
\* instance of handles it
ExceptResponse(exc) ==
    LET k == CHOOSE i \in DOMAIN ExceptClauses :
                 /\ ExceptClauses[i].class \in Bases(exc)
                 /\ \A j \in 1..(i - 1) : ExceptClauses[j].class \notin Bases(exc)
    IN [http |-> ExceptClauses[k].http, body |-> ExceptClauses[k].body]

(* ------------------------------- inputs -------------------------------- *)
\* all concatenations of at most n fragments of frags
RECURSIVE TextsOf(_, _)
TextsOf(frags, n) ==
    IF n = 0 THEN {<<>>}
    ELSE TextsOf(frags, n - 1) \cup {t \o f : t \in TextsOf(frags, n - 1), f \in frags}

\* segments of a request parameter
Segs == {<<>>, <<"4", "1", "4", "7">>, <<"2", "6">>, <<"0", "2", "6">>, <<"2", "0", "2", "6">>}

SegLists == UNION {[1..n -> Segs] : n \in 1..MaxSegs}

\* fragments of upstream texts
TextFrags == {
    <<"Y", "o", "u", "r", " ", "c", "a", "r", "d", " ", "w", "a", "s", " ", "d", "e", "c", "l", "i", "n", "e", "d">>, <<"c", "a", "r", "d", " ", "w", "a", "s", " ", "d", "e", "c", "l", "i", "n", "e", "d">>, <<" ", "d", "u", "e", " ", "t", "o", " ", "i", "n", "s", "u", "f", "f", "i", "c", "i", "e", "n", "t", " ", "f", "u", "n", "d", "s">>,
    <<"A", "P", "P", "R", "O", "V", "E", "D">>, <<"a", "p", "p", "r", "o", "v", "e", "d">>, <<"S", "u", "c", "c", "e", "s", "s">>, <<"I", "n", "v", "a", "l", "i", "d", " ", "C", "a", "r", "d">>, <<"i", "n", "c", "o", "r", "r", "e", "c", "t", " ", "c", "v", "c">>,
    <<"E", "x", "p", "i", "r", "e", "d", " ", "c", "a", "r", "d">>, <<"t", "r", "a", "n", "s", "a", "c", "t", "i", "o", "n", " ", "n", "o", "t", " ", "a", "l", "l", "o", "w", "e", "d">>, <<"D", "o", " ", "N", "o", "t", " ", "H", "o", "n", "o", "r">>, <<"s", "t", "o", "l", "e", "n", " ", "c", "a", "r", "d">>,
    <<"L", "O", "S", "T", " ", "C", "A", "R", "D">>, <<"p", "i", "c", "k", "u", "p", " ", "c", "a", "r", "d">>, <<"x", "y", "z", "-", "u", "n", "h", "a", "n", "d", "l", "e", "d", "-", "r", "e", "s", "p", "o", "n", "s", "e">>, <<"X", "Y", "Z">>, <<" ">>,
    <<"@", "j", "o", "e", " ">>, <<"h", "t", "t", "p", "s", ":", "/", "/", "x", ".", "c", "o", "/", "y">> }

\* the texts classified on their own
Texts == TextsOf(TextFrags, MaxTextFrags)

\* fragments of texts to sanitize
SanFrags == {
    <<"h", "t", "t", "p">>, <<"s">>, <<":", "/", "/", "x">>, <<"w", "w", "w", ".", "a", ".", "b">>, <<"w", "w", "w">>, <<".", "c", ".", "d">>, <<"@", "j", "o", "e">>, <<"@">>, <<" ">>, <<"o", "k">>,
    <<"c", "o", "n", "t", "a", "c", "t", " ", "@", "j", "o", "e", " ", "a", "t", " ", "h", "t", "t", "p", "s", ":", "/", "/", "x", ".", "c", "o", "/", "y">> }

\* bodies of the upstream replies the handler sees
Bodies == {<<>>, <<"Y", "o", "u", "r", " ", "c", "a", "r", "d", " ", "w", "a", "s", " ", "d", "e", "c", "l", "i", "n", "e", "d", " ", "d", "u", "e", " ", "t", "o", " ", "i", "n", "s", "u", "f", "f", "i", "c", "i", "e", "n", "t", " ", "f", "u", "n", "d", "s">>} \cup TextFrags

\* the texts sanitized on their own
SanTexts == TextsOf(SanFrags, MaxSanFrags)

\* upstream status codes other than 200
OtherStatus == {201, 404, 500}

(* -------------------------------- state -------------------------------- *)
VARIABLES
    pc,               \* position of the request: "start", "waiting", "done"
    segs,             \* the segments the client joined into cc_param
    cc_param,         \* the <path:cc_param> of the route
    cred,             \* cc, mm, yyyy, cvv as returned by parse_cc_parameter
    sent,             \* the URLs requested upstream by requests.get
    upstream,         \* what requests.get did: returned a response or raised
    classifier_calls, \* number of calls of parse_stripe_response
    outcome,          \* message, status, code of the classifier
    responses,        \* the responses returned to the client
    text,             \* argument of a function applied on its own
    clean,            \* sanitize_response(text)
    clean2            \* sanitize_response(clean)

vars == <<pc, segs, cc_param, cred, sent, upstream, classifier_calls, outcome,
          responses, text, clean, clean2>>

handlerVars == <<segs, cc_param, cred, sent, upstream, classifier_calls, responses>>

NoOutcome == Outcome(<<>>, "none", "none")
NoUpstream == [kind |-> "none"]
NoCred == [cc |-> <<>>, mm |-> <<>>, yyyy |-> <<>>, cvv |-> <<>>]

STRIPE_API_URL == <<"h", "t", "t", "p", "s", ":", "/", "/", "f", "r", "e", "e", "c", "h", "k", ".", "c", "a", "r", "d", "s", "/", "f", "r", "e", "e", "/", "s", "t", "r", "i", "p", "e", ".", "p", "h", "p", "?", "l", "i", "s", "t", "a", "=">>

InitCommon ==
    /\ pc = "start"
    /\ cred = NoCred
    /\ sent = <<>>
    /\ upstream = NoUpstream
    /\ classifier_calls = 0
    /\ outcome = NoOutcome
    /\ responses = <<>>
    /\ clean = <<>>
    /\ clean2 = <<>>

(* ------------------------------ stripe_auth ---------------------------- *)
\* a request arrives: the route's path converter binds a non-empty cc_param
Init ==
    /\ InitCommon
    /\ segs \in SegLists
    /\ cc_param = Join(segs, <<"|">>)
    /\ Len(cc_param) > 0
    /\ text = <<>>

\* all([cc, mm, yyyy, cvv])
AllFields(c) == Truthy(c.cc) /\ Truthy(c.mm) /\ Truthy(c.yyyy) /\ Truthy(c.cvv)

\* f"{cc}|{mm}|{yyyy}|{cvv}"
PipeJoined(c) == Join(<<c.cc, c.mm, c.yyyy, c.cvv>>, <<"|">>)

InvalidParameters ==
    [http |-> 400,
     body |-> [code |-> "INVALID_PARAMETERS",
               message |-> <<"Invalid credit card parameter format. Use: cc|mm|yyyy|cvv or cc|mm|yy|cvv">>,
               status |-> "declined"]]

\* lines 89-96: the parameter is parsed and rejected
RejectInvalid ==
    /\ pc = "start"
    /\ ~AllFields(parse_cc_parameter(cc_param))
    /\ cred' = parse_cc_parameter(cc_param)
    /\ responses' = Append(responses, InvalidParameters)
    /\ pc' = "done"
    /\ UNCHANGED <<segs, cc_param, sent, upstream, classifier_calls, outcome, text, clean, clean2>>

\* lines 89-107: the parameter is parsed and the upstream GET is issued
IssueGet ==
    /\ pc = "start"
    /\ AllFields(parse_cc_parameter(cc_param))
    /\ cred' = parse_cc_parameter(cc_param)
    /\ sent' = Append(sent, STRIPE_API_URL \o PipeJoined(parse_cc_parameter(cc_param)))
    /\ pc' = "waiting"
    /\ UNCHANGED <<segs, cc_param, upstream, classifier_calls, outcome, responses, text, clean, clean2>>

\* lines 107-121: the GET returns status 200 and a body
Reply200 ==
    /\ pc = "waiting"
    /\ \E body \in Bodies :
        /\ upstream' = [kind |-> "response", status_code |-> 200, text |-> body]
        /\ outcome' = parse_stripe_response(body)
        /\ classifier_calls' = classifier_calls + 1
        /\ responses' = Append(responses,
               [http |-> 200,
                body |-> [cc |-> PipeJoined(cred),
                          response |-> parse_stripe_response(body).message,
                          status |-> parse_stripe_response(body).status,
                          code |-> parse_stripe_response(body).code,
                          gate |-> "Stripe_Auth", processor |-> "OnyxEnvBot"]])
    /\ pc' = "done"
    /\ UNCHANGED <<segs, cc_param, cred, sent, text, clean, clean2>>

\* variant of ReplyNon200: the body of a non-200 reply is classified too
ReplyNon200_Classifies ==
    /\ pc = "waiting"
    /\ \E st \in OtherStatus, body \in Bodies :
        /\ upstream' = [kind |-> "response", status_code |-> st, text |-> body]
        /\ outcome' = parse_stripe_response(body)
        /\ classifier_calls' = classifier_calls + 1
        /\ responses' = Append(responses,
               [http |-> 502,
                body |-> [code |-> "STRIPE_API_ERROR",
                          message |-> <<"Stripe API returned status ", st>>,
                          status |-> "error",
                          gate |-> "Stripe_Auth", processor |-> "OnyxEnvBot"]])
    /\ pc' = "done"
    /\ UNCHANGED <<segs, cc_param, cred, sent, text, clean, clean2>>

\* lines 107-129: the GET returns another status
ReplyNon200 ==
    /\ pc = "waiting"
    /\ \E st \in OtherStatus, body \in Bodies :
        /\ upstream' = [kind |-> "response", status_code |-> st, text |-> body]
        /\ responses' = Append(responses,
               [http |-> 502,
                body |-> [code |-> "STRIPE_API_ERROR",
                          message |-> <<"Stripe API returned status ", st>>,
                          status |-> "error",
                          gate |-> "Stripe_Auth", processor |-> "OnyxEnvBot"]])
    /\ pc' = "done"
    /\ UNCHANGED <<segs, cc_param, cred, sent, classifier_calls, outcome, text, clean, clean2>>

\* variant of GetRaises: the GET is repeated once after an exception
GetRaises_RetriesOnce ==
    /\ pc = "waiting"
    /\ \E exc \in Raised :
        /\ upstream' = [kind |-> "raised", exc |-> exc]
        /\ IF Len(sent) < 2
           THEN /\ sent' = Append(sent, sent[1])
                /\ pc' = "waiting"
                /\ responses' = responses
           ELSE /\ sent' = sent
                /\ pc' = "done"
                /\ responses' = Append(responses, ExceptResponse(exc))
    /\ UNCHANGED <<segs, cc_param, cred, classifier_calls, outcome, text, clean, clean2>>

\* lines 107, 131-156: the GET raises and an except clause answers
GetRaises ==
    /\ pc = "waiting"
    /\ \E exc \in Raised :
        /\ upstream' = [kind |-> "raised", exc |-> exc]
        /\ responses' = Append(responses, ExceptResponse(exc))
    /\ pc' = "done"
    /\ UNCHANGED <<segs, cc_param, cred, sent, classifier_calls, outcome, text, clean, clean2>>

Next == RejectInvalid \/ IssueGet \/ Reply200 \/ ReplyNon200 \/ GetRaises

Spec == Init /\ [][Next]_vars

(* ---------------------- parse_cc_parameter on its own ------------------ *)
InitParse ==
    /\ InitCommon
    /\ segs \in SegLists
    /\ cc_param = Join(segs, <<"|">>)
    /\ text = <<>>

ParseOnly ==
    /\ pc = "start"
    /\ cred' = parse_cc_parameter(cc_param)
    /\ pc' = "done"
    /\ UNCHANGED <<segs, cc_param, sent, upstream, classifier_calls, outcome, responses, text, clean, clean2>>

NextParse == ParseOnly

SpecParse == InitParse /\ [][NextParse]_vars

(* ---------------------- sanitize_response on its own ------------------- *)
InitSanitize ==
    /\ InitCommon
    /\ segs = <<>>
    /\ cc_param = <<>>
    /\ text \in SanTexts

SanitizeOnce ==
    /\ pc = "start"
    /\ clean' = sanitize_response(text)
    /\ pc' = "once"
    /\ UNCHANGED <<handlerVars, outcome, text, clean2>>

SanitizeAgain ==
    /\ pc = "once"
    /\ clean2' = sanitize_response(clean)
    /\ pc' = "done"
    /\ UNCHANGED <<handlerVars, outcome, text, clean>>

NextSanitize == SanitizeOnce \/ SanitizeAgain

SpecSanitize == InitSanitize /\ [][NextSanitize]_vars

(* -------------------- parse_stripe_response on its own ----------------- *)
InitClassify ==
    /\ InitCommon
    /\ segs = <<>>
    /\ cc_param = <<>>
    /\ text \in Texts

Classify ==
    /\ pc = "start"
    /\ outcome' = parse_stripe_response(text)
    /\ classifier_calls' = classifier_calls + 1
    /\ pc' = "done"
    /\ UNCHANGED <<segs, cc_param, cred, sent, upstream, responses, text, clean, clean2>>

NextClassify == Classify

SpecClassify == InitClassify /\ [][NextClassify]_vars

(* ============================== properties ============================= *)
UpperChar(c) ==
    IF \E i \in DOMAIN LowerCase : LowerCase[i] = c
    THEN UpperCase[CHOOSE i \in DOMAIN LowerCase : LowerCase[i] = c]
    ELSE c

\* texts that differ from t only in the case of their letters
CaseVariants(t) ==
    { [i \in DOMAIN t |-> LowerChar(t[i])],
      [i \in DOMAIN t |-> UpperChar(t[i])],
      [i \in DOMAIN t |-> IF t[i] = LowerChar(t[i]) THEN UpperChar(t[i]) ELSE LowerChar(t[i])],
      [i \in DOMAIN t |-> IF i % 2 = 0 THEN UpperChar(t[i]) ELSE LowerChar(t[i])] }

\* the ordered rule table of the specification, with lower-case patterns
RuleTable == <<
    [pattern |-> <<"y", "o", "u", "r", " ", "c", "a", "r", "d", " ", "w", "a", "s", " ", "d", "e", "c", "l", "i", "n", "e", "d">>, message |-> <<"C", "a", "r", "d", " ", "D", "e", "c", "l", "i", "n", "e", "d">>, status |-> "declined", code |-> "CARD_DECLINED"],
    [pattern |-> <<"c", "a", "r", "d", " ", "w", "a", "s", " ", "d", "e", "c", "l", "i", "n", "e", "d">>, message |-> <<"C", "a", "r", "d", " ", "D", "e", "c", "l", "i", "n", "e", "d">>, status |-> "declined", code |-> "CARD_DECLINED"],
    [pattern |-> <<"a", "p", "p", "r", "o", "v", "e", "d">>, message |-> <<"A", "p", "p", "r", "o", "v", "e", "d">>, status |-> "approved", code |-> "APPROVED"],
    [pattern |-> <<"s", "u", "c", "c", "e", "s", "s">>, message |-> <<"S", "u", "c", "c", "e", "s", "s">>, status |-> "approved", code |-> "SUCCESS"],
    [pattern |-> <<"i", "n", "s", "u", "f", "f", "i", "c", "i", "e", "n", "t", " ", "f", "u", "n", "d", "s">>, message |-> <<"I", "n", "s", "u", "f", "f", "i", "c", "i", "e", "n", "t", " ", "F", "u", "n", "d", "s">>, status |-> "declined", code |-> "INSUFFICIENT_FUNDS"],
    [pattern |-> <<"i", "n", "v", "a", "l", "i", "d", " ", "c", "a", "r", "d">>, message |-> <<"I", "n", "v", "a", "l", "i", "d", " ", "C", "a", "r", "d">>, status |-> "declined", code |-> "INVALID_CARD"],
    [pattern |-> <<"i", "n", "c", "o", "r", "r", "e", "c", "t", " ", "c", "v", "c">>, message |-> <<"I", "n", "c", "o", "r", "r", "e", "c", "t", " ", "C", "V", "C">>, status |-> "declined", code |-> "INCORRECT_CVC"],
    [pattern |-> <<"e", "x", "p", "i", "r", "e", "d", " ", "c", "a", "r", "d">>, message |-> <<"E", "x", "p", "i", "r", "e", "d", " ", "C", "a", "r", "d">>, status |-> "declined", code |-> "EXPIRED_CARD"],
    [pattern |-> <<"t", "r", "a", "n", "s", "a", "c", "t", "i", "o", "n", " ", "n", "o", "t", " ", "a", "l", "l", "o", "w", "e", "d">>, message |-> <<"T", "r", "a", "n", "s", "a", "c", "t", "i", "o", "n", " ", "N", "o", "t", " ", "A", "l", "l", "o", "w", "e", "d">>, status |-> "declined", code |-> "TRANSACTION_NOT_ALLOWED"],
    [pattern |-> <<"d", "o", " ", "n", "o", "t", " ", "h", "o", "n", "o", "r">>, message |-> <<"D", "o", " ", "N", "o", "t", " ", "H", "o", "n", "o", "r">>, status |-> "declined", code |-> "DO_NOT_HONOR"],
    [pattern |-> <<"s", "t", "o", "l", "e", "n", " ", "c", "a", "r", "d">>, message |-> <<"S", "t", "o", "l", "e", "n", " ", "C", "a", "r", "d">>, status |-> "declined", code |-> "STOLEN_CARD"],
    [pattern |-> <<"l", "o", "s", "t", " ", "c", "a", "r", "d">>, message |-> <<"L", "o", "s", "t", " ", "C", "a", "r", "d">>, status |-> "declined", code |-> "LOST_CARD"],
    [pattern |-> <<"p", "i", "c", "k", "u", "p", " ", "c", "a", "r", "d">>, message |-> <<"P", "i", "c", "k", "u", "p", " ", "C", "a", "r", "d">>, status |-> "declined", code |-> "PICKUP_CARD"] >>

\* the rules of the table whose pattern occurs in the lower-cased text
Hits(t) ==
    {k \in DOMAIN RuleTable :
        \E i \in 1..Len(t) :
            /\ i + Len(RuleTable[k].pattern) - 1 <= Len(t)
            /\ \A j \in 1..Len(RuleTable[k].pattern) :
                   LowerChar(t[i + j - 1]) = RuleTable[k].pattern[j]}

FirstHit(t) == CHOOSE k \in Hits(t) : \A l \in Hits(t) : k <= l

\* the classifier of the specification
Reference(t) ==
    IF t = <<>> THEN [message |-> <<"N", "o", " ", "r", "e", "s", "p", "o", "n", "s", "e">>, status |-> "declined", code |-> "NO_RESPONSE"]
    ELSE IF Hits(t) = {}
         THEN [message |-> sanitize_response(t), status |-> "unknown", code |-> "UNKNOWN_RESPONSE"]
         ELSE [message |-> RuleTable[FirstHit(t)].message,
               status |-> RuleTable[FirstHit(t)].status,
               code |-> RuleTable[FirstHit(t)].code]

\* C1: every classified text gets the outcome of the specification's
\* classifier: empty text the NO_RESPONSE outcome, otherwise the outcome of
\* the first rule of the 13-row table whose pattern occurs in the lower-cased
\* text, otherwise the sanitized text with unknown / UNKNOWN_RESPONSE.
C1_ClassifierIsReference ==
    pc = "done" => outcome = Reference(text)

C1_Witness ==
    /\ pc = "done"
    /\ text = <<"Y", "o", "u", "r", " ", "c", "a", "r", "d", " ", "w", "a", "s", " ", "d", "e", "c", "l", "i", "n", "e", "d", " ", "d", "u", "e", " ", "t", "o", " ", "i", "n", "s", "u", "f", "f", "i", "c", "i", "e", "n", "t", " ", "f", "u", "n", "d", "s">>
    /\ outcome.code = "CARD_DECLINED"

\* the branch of stripe_auth a finished request went through
Branch ==
    IF sent = <<>> THEN "invalid"
    ELSE IF upstream.kind = "response"
         THEN IF upstream.status_code = 200 THEN "ok" ELSE "non200"
         ELSE IF "Timeout" \in Bases(upstream.exc) THEN "timeout"
              ELSE IF "RequestException" \in Bases(upstream.exc) THEN "network"
                   ELSE "fault"

\* C2: the response of a finished request is that of its one branch: 400
\* INVALID_PARAMETERS declined for a rejected parameter (every parameter
\* whose segment count is not 4 is rejected), 200 with the classifier's
\* triple after an upstream 200, 502 STRIPE_API_ERROR after another status,
\* 504 TIMEOUT_ERROR after a timeout, 503 NETWORK_ERROR after another
\* transport failure, 500 INTERNAL_ERROR after any other fault; a timeout is
\* never answered with 503 NETWORK_ERROR.
C2_OneBranchOneResponse ==
    pc = "done" =>
        /\ Len(responses) = 1
        /\ Len(segs) # 4 => Branch = "invalid"
        /\ Branch = "invalid" =>
               /\ responses[1].http = 400
               /\ responses[1].body.code = "INVALID_PARAMETERS"
               /\ responses[1].body.status = "declined"
        /\ Branch = "ok" =>
               /\ responses[1].http = 200
               /\ responses[1].body.response = Reference(upstream.text).message
               /\ responses[1].body.status = Reference(upstream.text).status
               /\ responses[1].body.code = Reference(upstream.text).code
        /\ Branch = "non200" =>
               /\ responses[1].http = 502
               /\ responses[1].body.code = "STRIPE_API_ERROR"
               /\ responses[1].body.status = "error"
        /\ Branch = "timeout" =>
               /\ responses[1].http = 504
               /\ responses[1].body.code = "TIMEOUT_ERROR"
               /\ responses[1].body.status = "error"
        /\ Branch = "network" =>
               /\ responses[1].http = 503
               /\ responses[1].body.code = "NETWORK_ERROR"
               /\ responses[1].body.status = "error"
        /\ Branch = "fault" =>
               /\ responses[1].http = 500
               /\ responses[1].body.code = "INTERNAL_ERROR"
               /\ responses[1].body.status = "error"

\* a connect timeout is both a timeout and a connection error
C2_Witness ==
    /\ pc = "done"
    /\ upstream.kind = "raised"
    /\ upstream.exc = "ConnectTimeout"
    /\ responses[1].http = 504

\* C3: every error response (400, 502, 504, 503, 500) carries code, message,
\* a status of declined or error, and the gate and processor identifiers.
C3_ErrorResponsesComplete ==
    \A i \in DOMAIN responses :
        responses[i].http \in {400, 502, 504, 503, 500} =>
            /\ {"code", "message", "status", "gate", "processor"} \subseteq DOMAIN responses[i].body
            /\ responses[i].body.status \in {"declined", "error"}

\* C4: a request issues at most one upstream GET and, once finished, has
\* returned exactly one response; a finished request is followed by no
\* further GET or response, and a rejected parameter issues no GET at all.
C4_Step ==
    /\ Len(sent') <= 1
    /\ Len(responses') <= 1
    /\ pc' = "done" => Len(responses') = 1
    /\ pc' # "done" => responses' = <<>>
    /\ pc = "done" => sent' = sent /\ responses' = responses
    /\ (pc' = "done" /\ responses'[1].http = 400) => sent' = <<>>

C4_AtMostOneGet == [][C4_Step]_vars

C4_Witness ==
    /\ pc = "done"
    /\ Len(sent) = 1
    /\ upstream.kind = "response"
    /\ upstream.status_code = 500
    /\ Len(responses) = 1

\* C5: parse_stripe_response is invoked only after the upstream call
\* returned status 200, and then once: after a timeout, another transport
\* failure or a non-200 status the classifier has not been invoked.
C5_ClassifierOnlyAfter200 ==
    /\ classifier_calls > 0 => upstream.kind = "response" /\ upstream.status_code = 200
    /\ (pc = "done" /\ Branch \in {"non200", "timeout", "network", "fault", "invalid"}) =>
           classifier_calls = 0 /\ outcome = NoOutcome
    /\ (pc = "done" /\ Branch = "ok") => classifier_calls = 1

C5_Witness ==
    /\ pc = "done"
    /\ upstream.kind = "response"
    /\ upstream.status_code = 404
    /\ upstream.text = <<"A", "P", "P", "R", "O", "V", "E", "D">>
    /\ classifier_calls = 0

\* number of '|'-delimited segments of a parameter
SegCount(p) == Cardinality({i \in DOMAIN p : p[i] = "|"}) + 1

\* C6: parse_cc_parameter returns no credential when the parameter has not
\* exactly 4 segments; for 4 segments it returns number, month and cvv
\* unchanged, the year prefixed with "20" when it has 2 characters and
\* unchanged when it has 4.
C6_ParserContract ==
    pc = "done" =>
        /\ SegCount(cc_param) = Len(segs)
        /\ SegCount(cc_param) # 4 =>
               cred.cc = None /\ cred.mm = None /\ cred.yyyy = None /\ cred.cvv = None
        /\ SegCount(cc_param) = 4 =>
               /\ cred.cc = segs[1]
               /\ cred.mm = segs[2]
               /\ cred.cvv = segs[4]
               /\ Len(segs[3]) = 2 => cred.yyyy = <<"2", "0">> \o segs[3]
               /\ Len(segs[3]) = 4 => cred.yyyy = segs[3]

C6_Witness ==
    /\ pc = "done"
    /\ segs = <<<<"4", "1", "4", "7">>, <<"2", "6">>, <<"2", "6">>, <<"0", "2", "6">>>>
    /\ cred.yyyy = <<"2", "0", "2", "6">>

\* C7: the year of every credential (a parsed parameter with four non-empty
\* fields, the ones sent upstream and echoed in the cc field) has exactly 4
\* characters.
C7_YearHasFourCharacters ==
    (pc # "start" /\ AllFields(cred)) => Len(cred.yyyy) = 4

\* C8: sanitize_response is idempotent.
C8_SanitizeIdempotent ==
    pc = "done" => clean2 = clean

\* C9 as stated: two texts that differ only in case get identical outcomes,
\* message included.
C9_SameOutcome ==
    pc = "done" => \A u \in CaseVariants(text) : parse_stripe_response(u) = outcome

\* C9: two texts that differ only in the case of their letters get the same
\* status and the same code, and the same message when a rule matches or the
\* text is empty.
C9_SameStatusAndCode ==
    pc = "done" =>
        \A u \in CaseVariants(text) :
            /\ parse_stripe_response(u).status = outcome.status
            /\ parse_stripe_response(u).code = outcome.code
            /\ outcome.code # "UNKNOWN_RESPONSE" => parse_stripe_response(u).message = outcome.message

C9_Witness ==
    /\ pc = "done"
    /\ text = <<"A", "P", "P", "R", "O", "V", "E", "D">>
    /\ <<"a", "p", "p", "r", "o", "v", "e", "d">> \in CaseVariants(text)
    /\ outcome = Outcome(<<"A", "p", "p", "r", "o", "v", "e", "d">>, "approved", "APPROVED")

\* C10: a GET is issued only for a credential whose four fields are
\* non-empty; a 4-segment parameter with an empty segment is answered with
\* 400 INVALID_PARAMETERS without any GET.
C10_NoGetForEmptyField ==
    /\ sent # <<>> =>
           /\ Len(segs) = 4
           /\ \A i \in 1..4 : segs[i] # <<>>
           /\ Len(cred.cc) > 0 /\ Len(cred.mm) > 0 /\ Len(cred.yyyy) > 0 /\ Len(cred.cvv) > 0
    /\ (pc = "done" /\ Len(segs) = 4 /\ \E i \in 1..4 : segs[i] = <<>>) =>
           /\ sent = <<>>
           /\ Len(responses) = 1
           /\ responses[1].http = 400
           /\ responses[1].body.code = "INVALID_PARAMETERS"

C10_Witness ==
    /\ pc = "done"
    /\ segs = <<<<"4", "1", "4", "7">>, <<"2", "6">>, <<>>, <<"0", "2", "6">>>>
    /\ cred.cc = <<"4", "1", "4", "7">>
    /\ responses[1].http = 400

====
